---------------------------- MODULE Spec2Model ----------------------------
(***************************************************************************)
(* Model of the evolutionary signal-timing search of traffic-optimizers:   *)
(*   src/src/algorithms/ga/ga.py            selection, n_point_crossover,   *)
(*                                          crossover, mutation,            *)
(*                                          run_evolution                   *)
(*   src/src/algorithms/websters/websters.py  the Webster seeder            *)
(*   src/src/common/compute.py              amber / all-red / green times   *)
(*                                                                         *)
(* Python floats are modelled by exact rationals; where float rounding    *)
(* can change an outcome (the sum Y, a ceil of an integral quotient) the  *)
(* model takes every outcome rounding allows.  A phase is the record      *)
(* of typings.PhaseConfig, a configuration a sequence of phases, a         *)
(* population a sequence of configurations.  Python's 0-based index i is   *)
(* the TLA+ index i + 1.                                                   *)
(***************************************************************************)
EXTENDS Integers, Sequences, FiniteSets, TLC

VARIABLES
    \* ---- run_evolution (ga.py 281-331) ----
    population_dict,   \* the argument, as the list of its values
    generation_limit,  \* the argument
    fitness_func,      \* the argument: which deterministic oracle is injected
    population,        \* local `population`
    next_gen,          \* local `next_gen`
    top_1,             \* local `top_1`
    generation,        \* local `generation` (Unbound before the first iteration)
    pc,                \* position inside run_evolution
    mut_k,             \* progress of the comprehension of line 316
    generations_run,   \* number of loop bodies started
    selection_calls,   \* calls of selection() in the current generation
    result,            \* the returned tuple, or the exception raised
    \* ---- one call of mutation (ga.py 225-278) ----
    m_pc, m_config, m_i, m_shift, m_result,
    \* ---- one call of n_point_crossover (ga.py 137-190) ----
    x_pc, a, b, n, x_points, x_result,
    \* ---- compute_signal_config_with_poisson (websters.py 28-83) ----
    s_pc, params, normal_flows_per_minute, Y, tl_config,
    \* ---- calls of fitness (ga.py 121-134) ----
    f_pc,              \* position inside fitness
    f_config,          \* the argument
    f_workdir,         \* the directory bound by `with ... as workdir`
    f_outcome,         \* how _evaluate_config ended
    f_result,          \* the value returned
    f_calls,           \* calls of fitness made so far
    tmp_dirs,          \* the temporary directories that exist
    dirs_created,      \* directories created so far
    evaluations,       \* the calls of _evaluate_config made so far
    \* ---- one call of selection (ga.py 41-64) ----
    sel_pc, sel_population, sel_fitness_func, sel_result

evoVars  == <<population_dict, generation_limit, fitness_func, population,
              next_gen, top_1, generation, pc, mut_k, generations_run,
              selection_calls, result>>
mutVars  == <<m_pc, m_config, m_i, m_shift, m_result>>
xVars    == <<x_pc, a, b, n, x_points, x_result>>
seedVars == <<s_pc, params, normal_flows_per_minute, Y, tl_config>>
fitVars  == <<f_pc, f_config, f_workdir, f_outcome, f_result, f_calls,
              tmp_dirs, dirs_created, evaluations>>
selVars  == <<sel_pc, sel_population, sel_fitness_func, sel_result>>
vars     == <<evoVars, mutVars, xVars, seedVars, fitVars, selVars>>

---------------------------------------------------------------------------
(* Program constants *)

MIN_GREEN == 5          \* min_green defaults, fitness pre-check
DELTA == 5              \* mutation(delta=5.0)
NUM_OFFSPRING == 3      \* crossover(num_offspring=3)
MAX_POINTS == 2         \* crossover(max_points=2)
INF == 1000000          \* float('inf'): above every finite score of the model

(* Bounds of the model *)

MaxPop == 2             \* individuals in population_dict: 0..MaxPop
MaxGen == 2             \* generation_limit: 0..MaxGen
MaxGreen == 6           \* green times kept within the model by the guards
MaxPhases == 3          \* phases of a configuration given to an operator
MaxN == 3               \* point count n given to n_point_crossover
MaxArrivals == 8        \* largest sampled per-minute arrival count
MaxCalls == 4           \* calls of fitness in one run

\* `generation` before the loop binds it (no index of a range is negative)
Unbound == 0 - 1

---------------------------------------------------------------------------
(* Arithmetic helpers *)

Max(x, y) == IF x >= y THEN x ELSE y
Min(x, y) == IF x <= y THEN x ELSE y
LowestOf(S) == CHOOSE x \in S : \A y \in S : x <= y

\* int(num / den) for den > 0: truncation toward zero (Python int() of a float)
TruncDiv(num, den) == IF num >= 0 THEN num \div den ELSE -((-num) \div den)

\* math.ceil(num / den) for den # 0
CeilDiv(num, den) ==
    IF den > 0 THEN -((-num) \div den) ELSE -(num \div (-den))

RECURSIVE GCD(_, _)
GCD(x, y) == IF y = 0 THEN x ELSE GCD(y, x % y)

LCM(x, y) == (x \div GCD(x, y)) * y

RECURSIVE IsPowerOfTwo(_)
IsPowerOfTwo(x) == x = 1 \/ (x > 1 /\ x % 2 = 0 /\ IsPowerOfTwo(x \div 2))

RECURSIVE SumTo(_, _)
SumTo(s, k) == IF k = 0 THEN 0 ELSE s[k] + SumTo(s, k - 1)

\* sum(s)
SumSeq(s) == SumTo(s, Len(s))

\* Python slice s[lo:hi] for 0 <= lo
PySlice(s, lo, hi) ==
    LET h == Min(hi, Len(s))
    IN IF h <= lo THEN <<>> ELSE SubSeq(s, lo + 1, h)

Phase(g, am, ar) == [green |-> g, amber |-> am, all_red |-> ar]

Greens(config) == [k \in 1..Len(config) |-> config[k].green]


---------------------------------------------------------------------------
(* fitness_func: the deterministic oracles injected into run_evolution.    *)
(*   "sum_green"  the stub of the spec's scenario: the sum of green times  *)
(*   "precheck"   ga.fitness with a deterministic evaluator behind it: the *)
(*                min-green pre-check answers inf, else the evaluator's    *)
(*                score (here the sum of green times)                      *)
(*   "strict"     an injected function that raises for a configuration    *)
(*                holding a green below the minimum and answers the sum   *)
(*                of green times for every other                          *)

FitnessKinds == {"sum_green", "precheck", "strict"}

\* the call fitness_func(config) raises
OracleRaises(kind, config) ==
    kind = "strict" /\ \E k \in 1..Len(config) : config[k].green < MIN_GREEN

\* some key of population.sort(key=...) / sorted(key=...) raises; the list
\* is then left as it was
SortRaises(pop, kind) == \E k \in 1..Len(pop) : OracleRaises(kind, pop[k])

FitnessFunc(kind, config) ==
    IF kind = "precheck" /\ \E k \in 1..Len(config) : config[k].green < MIN_GREEN
    THEN INF
    ELSE SumSeq(Greens(config))

\* list.sort(key=...) / sorted(key=...): stable, ascending by key.  The element
\* at k moves behind every element of a smaller key and every earlier element
\* of the same key.
SortedPosition(pop, kind, k) ==
    1 + Cardinality({j \in 1..Len(pop) :
            \/ FitnessFunc(kind, pop[j]) < FitnessFunc(kind, pop[k])
            \/ FitnessFunc(kind, pop[j]) = FitnessFunc(kind, pop[k]) /\ j < k})

SortByFitness(pop, kind) ==
    [p \in 1..Len(pop) |->
        pop[CHOOSE k \in 1..Len(pop) : SortedPosition(pop, kind, k) = p]]

---------------------------------------------------------------------------
(* selection (ga.py 41-64): random.choices(population, weights, k=2) *)

SelectionWeights(pop, kind) == [k \in 1..Len(pop) |-> FitnessFunc(kind, pop[k])]

\* choices() raises on an empty population, a total weight <= 0 or a
\* non-finite total weight
SelectionRaises(pop, kind) ==
    \/ pop = <<>>
    \/ SumSeq(SelectionWeights(pop, kind)) <= 0
    \/ \E k \in 1..Len(pop) : SelectionWeights(pop, kind)[k] >= INF

\* the pairs choices() can return: members of positive weight, with replacement
SelectionOutcomes(pop, kind) ==
    LET drawable == {k \in 1..Len(pop) : SelectionWeights(pop, kind)[k] > 0}
    IN {<<pop[i], pop[j]>> : i \in drawable, j \in drawable}

---------------------------------------------------------------------------
(* n_point_crossover (ga.py 137-190) *)

LengthMismatch_OnlyLonger(pa, pb) == Len(pa) > Len(pb)
\* line 155
LengthMismatch(pa, pb) == Len(pa) # Len(pb)

\* lines 159-160
ClampPoints(np, num_phases) == IF np >= num_phases THEN num_phases - 1 ELSE np

\* sample(range(1, num_phases), n): the sets of n distinct interior points;
\* sample raises ValueError when n is negative
SampleRaises(np, num_phases) == ClampPoints(np, num_phases) < 0

SampleChoices(np, num_phases) ==
    {S \in SUBSET (1..(num_phases - 1)) : Cardinality(S) = ClampPoints(np, num_phases)}

\* sorted(...) of line 163
RECURSIVE SortedPoints(_)
SortedPoints(S) ==
    IF S = {} THEN <<>>
    ELSE LET lo == CHOOSE x \in S : \A y \in S : x <= y
         IN <<lo>> \o SortedPoints(S \ {lo})

\* line 164
CrossoverPoints(S, num_phases) == Append(SortedPoints(S), num_phases)

FlipSource_Stuck(use_a) == use_a
\* line 183
FlipSource(use_a) == ~use_a

\* lines 166-184: the loop over the crossover points
RECURSIVE AlternateSegments(_, _, _, _, _, _, _)
AlternateSegments(pa, pb, pts, prev_point, use_a, child1, child2) ==
    IF pts = <<>> THEN <<child1, child2>>
    ELSE LET point == Head(pts)
             segA == PySlice(pa, prev_point, point)
             segB == PySlice(pb, prev_point, point)
         IN AlternateSegments(pa, pb, Tail(pts), point, FlipSource(use_a),
                child1 \o (IF use_a THEN segA ELSE segB),
                child2 \o (IF use_a THEN segB ELSE segA))

EnforceMinGreen_NoClamp(phase) == phase
\* line 188, for one phase
EnforceMinGreen(phase) == [phase EXCEPT !.green = Max(MIN_GREEN, phase.green)]

\* lines 158-190 for the sample S drawn at line 163
n_point_crossover(pa, pb, S) ==
    LET num_phases == Len(pa)
        kids == AlternateSegments(pa, pb, CrossoverPoints(S, num_phases),
                                  0, TRUE, <<>>, <<>>)
    IN [status |-> "returned",
        child1 |-> [k \in 1..Len(kids[1]) |-> EnforceMinGreen(kids[1][k])],
        child2 |-> [k \in 1..Len(kids[2]) |-> EnforceMinGreen(kids[2][k])]]

ValueErrorLength ==
    [status |-> "ValueError: Parent configurations must have equal length",
     child1 |-> <<>>, child2 |-> <<>>]

ValueErrorSample ==
    [status |-> "ValueError: Sample larger than population or is negative",
     child1 |-> <<>>, child2 |-> <<>>]

---------------------------------------------------------------------------
(* crossover (ga.py 193-222) with the defaults num_offspring=3, max_points=2 *)

\* randint(1, min(max_points, len(a) - 1)) raises on an empty range;
\* n_point_crossover raises on parents of different lengths
CrossoverRaises(pa, pb) ==
    \/ Min(MAX_POINTS, Len(pa) - 1) < 1
    \/ LengthMismatch(pa, pb)

\* what one call of n_point_crossover made by crossover can return
CrossoverCalls(pa, pb) ==
    UNION {{n_point_crossover(pa, pb, S) : S \in SampleChoices(np, Len(pa))} :
              np \in 1..Min(MAX_POINTS, Len(pa) - 1)}

\* lines 211-222: every call appends child1, and child2 while fewer than
\* num_offspring are collected; the list is cut to num_offspring
RECURSIVE CollectOffspring(_, _)
CollectOffspring(calls, offspring) ==
    IF calls = <<>> THEN SubSeq(offspring, 1, Min(NUM_OFFSPRING, Len(offspring)))
    ELSE LET with1 == Append(offspring, Head(calls).child1)
             with2 == IF Len(with1) < NUM_OFFSPRING
                      THEN Append(with1, Head(calls).child2) ELSE with1
         IN CollectOffspring(Tail(calls), with2)

CrossoverOutcomes(pa, pb) ==
    {CollectOffspring(calls, <<>>) :
        calls \in [1..NUM_OFFSPRING -> CrossoverCalls(pa, pb)]}

---------------------------------------------------------------------------
(* mutation (ga.py 225-278) with the defaults delta=5.0, min_green=5.0.    *)
(* The continuous draw uniform(-delta, delta) is given in half units:      *)
(* shift2 = 2 * mutation.  Every truncation of the function cuts at a      *)
(* whole number, so a whole number and the midpoint of each open unit      *)
(* interval stand for every real draw.                                     *)

ShiftChoices == (-2 * DELTA)..(2 * DELTA)

\* line 259: green + int(mutation)
ShiftedGreen(green, shift2) == green + TruncDiv(shift2, 2)

\* lines 261-263: the recorded shift after the clamp of the selected phase
RecordedShift(shifted, shift2) ==
    IF shifted < MIN_GREEN THEN shift2 + 2 * (MIN_GREEN - shifted) ELSE shift2

\* line 265: int(-mutation / (num_phases - 1))
Redistribution(recorded2, num_phases) == TruncDiv(-recorded2, 2 * (num_phases - 1))

\* lines 271-276
ClampGreen(green) == IF green < MIN_GREEN THEN MIN_GREEN ELSE green

\* lines 250-252
MutationIsNoOp(num_phases) == num_phases <= 1

mutation(traffic_configuration, i, shift2) ==
    LET num_phases == Len(traffic_configuration)
    IN IF MutationIsNoOp(num_phases) THEN traffic_configuration
       ELSE LET shifted == ShiftedGreen(traffic_configuration[i].green, shift2)
                recorded2 == RecordedShift(shifted, shift2)
                redistribution == Redistribution(recorded2, num_phases)
            IN [j \in 1..num_phases |->
                  [traffic_configuration[j] EXCEPT !.green =
                      IF j = i THEN ClampGreen(ClampGreen(shifted))
                      ELSE ClampGreen(ClampGreen(@ + redistribution))]]

\* what the caller's argument holds after the call
ArgumentAfter_Edited(traffic_configuration, returned) == returned
\* line 254: the edits of lines 259-276 go to a deep copy (a no-op call
\* returns the argument itself, unedited), so the argument keeps its value
ArgumentAfter(traffic_configuration, returned) == traffic_configuration

\* line 256: randint(0, num_phases - 1), drawn unless the call is a no-op
\* (the index is then not used)
IndexChoices(config) == 1..Max(1, Len(config))

---------------------------------------------------------------------------
\* no value yet: nothing returned, nothing raised
NoResult == [status |-> "none", population |-> <<>>, generation |-> Unbound]
NoChildren == [status |-> "none", child1 |-> <<>>, child2 |-> <<>>]
NoParams ==
    [saturation_flows |-> <<>>, lambda_rates |-> <<>>, reaction_time |-> 0,
     road_widths |-> <<>>, vehicle_speed |-> 0, deceleration_rate |-> 0,
     vehicle_length |-> 0]
NoY == [num |-> 0, den |-> 1, ulps |-> 0]

(* Idle values: a specification that exercises one function keeps the      *)
(* variables of the others at these values.                                *)

EvoIdle ==
    /\ population_dict = <<>> /\ generation_limit = 0 /\ fitness_func = "sum_green"
    /\ population = <<>> /\ next_gen = <<>> /\ top_1 = <<>>
    /\ generation = Unbound /\ pc = "idle" /\ mut_k = 0
    /\ generations_run = 0 /\ selection_calls = 0 /\ result = NoResult

MutIdle ==
    /\ m_pc = "idle" /\ m_config = <<>> /\ m_i = 0 /\ m_shift = 0 /\ m_result = NoResult

XIdle ==
    /\ x_pc = "idle" /\ a = <<>> /\ b = <<>> /\ n = 0 /\ x_points = {}
    /\ x_result = NoResult

SeedIdle ==
    /\ s_pc = "idle" /\ params = NoParams /\ normal_flows_per_minute = <<>>
    /\ Y = NoY /\ tl_config = <<>>

\* no directory bound, no score returned
NoDir == 0
NoScore == 0 - 1

FitIdle ==
    /\ f_pc = "idle" /\ f_config = <<>> /\ f_workdir = NoDir
    /\ f_outcome = "none" /\ f_result = NoScore /\ f_calls = 0
    /\ tmp_dirs = {} /\ dirs_created = 0 /\ evaluations = <<>>

SelIdle ==
    /\ sel_pc = "idle" /\ sel_population = <<>>
    /\ sel_fitness_func = "sum_green" /\ sel_result = <<>>

---------------------------------------------------------------------------
(* run_evolution (ga.py 281-331) *)

\* green times of the configurations handed to run_evolution: one below the
\* minimum green, the others feasible
InitGreens == {4, 6}

EvoSeqs(S, len) == [1..len -> S]

\* two-phase configurations, amber 3 and all-red 1 as in the spec's scenario
EvoConfigs == {[k \in 1..2 |-> Phase(g[k], 3, 1)] : g \in EvoSeqs(InitGreens, 2)}

WithinModel(config) == \A k \in 1..Len(config) : config[k].green <= MaxGreen

\* line 287
InitEvo ==
    /\ population_dict \in UNION {EvoSeqs(EvoConfigs, size) : size \in 0..MaxPop}
    /\ generation_limit \in 0..MaxGen
    /\ fitness_func \in FitnessKinds
    /\ population = population_dict
    /\ next_gen = <<>>
    /\ top_1 = <<>>
    /\ generation = Unbound
    /\ pc = "for"
    /\ mut_k = 0
    /\ generations_run = 0
    /\ selection_calls = 0
    /\ result = NoResult

Init == InitEvo /\ MutIdle /\ XIdle /\ SeedIdle /\ FitIdle /\ SelIdle

\* range(generation_limit): the index of the next iteration
NextIndex(g) == IF g = Unbound THEN 0 ELSE g + 1

\* line 291: the loop runs while the range has an index left
HasNextGeneration(g, limit) == NextIndex(g) < limit

TopOf_Worst(pop) == pop[Len(pop)]
\* line 296
TopOf(pop) == pop[1]

\* line 302
RestOf(pop) == Tail(pop)

\* line 305
SlotsToFill(ng, pop) == Len(ng) < Len(pop) - 1

AppendElite_Dropped(ng, elite) == ng
\* line 320
AppendElite(ng, elite) == Append(ng, elite)

Raise_Returns(exception) ==
    /\ pc' = "done"
    /\ result' = [status |-> "returned", population |-> <<>>, generation |-> Unbound]
\* an exception leaves run_evolution
Raise(exception) ==
    /\ pc' = "raised"
    /\ result' = [status |-> exception, population |-> <<>>, generation |-> Unbound]

\* lines 291-302: one more iteration; sort, keep the best, start next_gen
StartGeneration ==
    /\ pc = "for"
    /\ HasNextGeneration(generation, generation_limit)
    /\ generation' = NextIndex(generation)
    /\ generations_run' = generations_run + 1
    /\ selection_calls' = 0
    /\ IF SortRaises(population, fitness_func)
       THEN /\ Raise("OracleError")
            /\ UNCHANGED <<population, top_1, next_gen>>
       ELSE /\ population' = SortByFitness(population, fitness_func)
            /\ IF population = <<>>
               THEN /\ Raise("IndexError")
                    /\ UNCHANGED <<top_1, next_gen>>
               ELSE /\ top_1' = TopOf(population')
                    /\ next_gen' = RestOf(population')
                    /\ pc' = "while"
                    /\ UNCHANGED result
    /\ UNCHANGED <<population_dict, generation_limit, fitness_func, mut_k>>
    /\ UNCHANGED <<mutVars, xVars, seedVars, fitVars, selVars>>

\* lines 305-314: the test of the while loop and, when it passes, one body:
\* selection, crossover, extend
FillSlots ==
    /\ pc = "while"
    /\ IF SlotsToFill(next_gen, population)
       THEN /\ selection_calls' = selection_calls + 1
            /\ IF SortRaises(population, fitness_func)
               THEN Raise("OracleError") /\ UNCHANGED <<next_gen, mut_k>>
               ELSE IF SelectionRaises(population, fitness_func)
               THEN Raise("ValueError") /\ UNCHANGED <<next_gen, mut_k>>
               ELSE \E parents \in SelectionOutcomes(population, fitness_func) :
                      IF CrossoverRaises(parents[1], parents[2])
                      THEN Raise("ValueError") /\ UNCHANGED <<next_gen, mut_k>>
                      ELSE \E offspring \in CrossoverOutcomes(parents[1], parents[2]) :
                             /\ next_gen' = next_gen \o offspring
                             /\ UNCHANGED <<pc, result, mut_k>>
       ELSE /\ pc' = "mutate"
            /\ mut_k' = 0
            /\ UNCHANGED <<next_gen, selection_calls, result>>
    /\ UNCHANGED <<population_dict, generation_limit, fitness_func, population,
                   top_1, generation, generations_run>>
    /\ UNCHANGED <<mutVars, xVars, seedVars, fitVars, selVars>>

\* line 316, one element of the comprehension: next_gen[mut_k] is replaced
\* by its mutation
MutateNext ==
    /\ pc = "mutate"
    /\ mut_k < Len(next_gen)
    /\ mut_k' = mut_k + 1
    /\ \E i \in IndexChoices(next_gen[mut_k']), shift2 \in ShiftChoices :
          LET mutated == mutation(next_gen[mut_k'], i, shift2)
          IN /\ WithinModel(mutated)
             /\ next_gen' = [next_gen EXCEPT ![mut_k'] = mutated]
    /\ UNCHANGED <<population_dict, generation_limit, fitness_func, population,
                   top_1, generation, pc, generations_run, selection_calls, result>>
    /\ UNCHANGED <<mutVars, xVars, seedVars, fitVars, selVars>>

\* lines 320-322: the elite is appended, next_gen becomes the population
NextPopulation ==
    /\ pc = "mutate"
    /\ mut_k = Len(next_gen)
    /\ next_gen' = AppendElite(next_gen, top_1)
    /\ population' = next_gen'
    /\ pc' = "for"
    /\ UNCHANGED <<population_dict, generation_limit, fitness_func, top_1,
                   generation, mut_k, generations_run, selection_calls, result>>
    /\ UNCHANGED <<mutVars, xVars, seedVars, fitVars, selVars>>

Returned_Unsorted(pop, kind, g) ==
    [status |-> "returned", population |-> pop, generation |-> g]
\* line 331: the returned pair
Returned(pop, kind, g) ==
    [status |-> "returned", population |-> SortByFitness(pop, kind), generation |-> g]

\* lines 326-331: after the loop
ReturnEvolution ==
    /\ pc = "for"
    /\ ~HasNextGeneration(generation, generation_limit)
    /\ IF population = <<>>
       THEN Raise("IndexError")
       ELSE IF OracleRaises(fitness_func, population[Len(population)])
       THEN Raise("OracleError")
       ELSE IF Len(population) < 2
       THEN Raise("IndexError")
       ELSE IF SortRaises(population, fitness_func)
       THEN Raise("OracleError")
       ELSE IF generation = Unbound
            THEN Raise("UnboundLocalError")
            ELSE /\ pc' = "done"
                 /\ result' = Returned(population, fitness_func, generation)
    /\ UNCHANGED <<population_dict, generation_limit, fitness_func, population,
                   next_gen, top_1, generation, mut_k, generations_run,
                   selection_calls>>
    /\ UNCHANGED <<mutVars, xVars, seedVars, fitVars, selVars>>

Next ==
    \/ StartGeneration
    \/ FillSlots
    \/ MutateNext
    \/ NextPopulation
    \/ ReturnEvolution

Spec == Init /\ [][Next]_vars

\* run_evolution is sequential code: it keeps running until it returns or raises
FairSpec == Spec /\ WF_vars(Next)

---------------------------------------------------------------------------
(* Properties of run_evolution *)

FitnessValues(pop, kind) == {FitnessFunc(kind, pop[k]) : k \in 1..Len(pop)}

BestFitness(pop, kind) ==
    CHOOSE f \in FitnessValues(pop, kind) : \A g \in FitnessValues(pop, kind) : f <= g

IsSortedByFitness(pop, kind) ==
    \A i \in 1..Len(pop) : \A j \in i..Len(pop) :
        FitnessFunc(kind, pop[i]) <= FitnessFunc(kind, pop[j])

\* C1: with a deterministic fitness function the best (minimum) fitness of
\* the population never increases when the population changes, from one
\* generation to the next, and the best score of the returned population
\* is at most the best score of the population handed in.
C1_BestFitnessNeverIncreases ==
    [][ /\ (population # <<>> /\ population' # <<>>) =>
              BestFitness(population', fitness_func')
                  <= BestFitness(population, fitness_func)
        /\ (pc' = "done" /\ population_dict' # <<>>) =>
              BestFitness(result'.population, fitness_func')
                  <= BestFitness(population_dict', fitness_func')
      ]_vars

\* C1 witness: two generations ran, a mutated individual beat the initial best
C1_Witness ==
    /\ pc = "done"
    /\ generations_run >= 2
    /\ BestFitness(result.population, fitness_func)
          < BestFitness(population_dict, fitness_func)

\* C2 (as claimed): in every generation that has non-elite members,
\* Selection and Crossover have been invoked before Mutation is applied.
C2_SelectionBeforeMutation ==
    (pc = "mutate" /\ Len(population) >= 2) => selection_calls >= 1

\* C3: the population has the size of the population handed in, at the
\* start of every generation, inside it and in the returned population.
C3_PopulationSizeInvariant ==
    /\ Len(population) = Len(population_dict)
    /\ pc = "done" => Len(result.population) = Len(population_dict)

\* C3 witness: a generation has been completed on two or more individuals
C3_Witness ==
    /\ pc = "for"
    /\ generations_run >= 1
    /\ Len(population) >= 2
    /\ population # population_dict

\* C4: for generation_limit >= 1, at least 2 individuals and a fitness
\* function that answers every call with a score, run_evolution ends by
\* returning, after exactly generation_limit generations, the population
\* sorted ascending by fitness and the last generation index.
C4_TerminatesAfterLimit ==
    (/\ generation_limit >= 1
     /\ Len(population_dict) >= 2
     /\ fitness_func \in {"sum_green", "precheck"}) =>
        <>( /\ pc = "done"
            /\ generations_run = generation_limit
            /\ result.generation = generation_limit - 1
            /\ Len(result.population) = Len(population_dict)
            /\ IsSortedByFitness(result.population, fitness_func) )

\* C4 witness: a return after two generations whose elite was strictly best
C4_Witness ==
    /\ pc = "done"
    /\ generation_limit >= 2
    /\ generations_run = generation_limit
    /\ Len(result.population) >= 2
    /\ FitnessFunc(fitness_func, result.population[1])
          < FitnessFunc(fitness_func, result.population[2])

---------------------------------------------------------------------------
(* One call of mutation (ga.py 225-278) on an arbitrary configuration *)

\* green times of the configurations given to the operators: below, at and
\* above the minimum green
OperatorGreens == {2, 5, 9}

ConfigsOver(greens, lens) ==
    UNION {{[k \in 1..len |-> Phase(g[k], 3, 1)] : g \in [1..len -> greens]} :
              len \in lens}

InitMutation ==
    /\ m_pc = "call"
    /\ m_config \in ConfigsOver(OperatorGreens, 0..MaxPhases)
    /\ m_i = 0
    /\ m_shift = 0
    /\ m_result = <<>>

\* the call: the random draws of lines 256-257 and the returned configuration;
\* the argument is deep-copied (line 254) and keeps its value
CallMutation ==
    /\ m_pc = "call"
    /\ \E i \in IndexChoices(m_config), shift2 \in ShiftChoices :
          /\ m_i' = i
          /\ m_shift' = shift2
          /\ m_result' = mutation(m_config, i, shift2)
    /\ m_config' = ArgumentAfter(m_config, m_result')
    /\ m_pc' = "returned"
    /\ UNCHANGED <<evoVars, xVars, seedVars, fitVars, selVars>>

NextMutation == CallMutation

MutationInit == InitMutation /\ EvoIdle /\ XIdle /\ SeedIdle /\ FitIdle /\ SelIdle

SpecMutation == MutationInit /\ [][NextMutation]_vars

---------------------------------------------------------------------------
(* One call of n_point_crossover (ga.py 137-190) on arbitrary parents *)

ParentGreens == {3, 8}

InitCrossover ==
    /\ x_pc = "call"
    /\ a \in ConfigsOver(ParentGreens, 0..MaxPhases)
    /\ b \in ConfigsOver(ParentGreens, 0..MaxPhases)
    /\ n \in 0..MaxN
    /\ x_points = {}
    /\ x_result = NoChildren

\* the call: the length check, the sample of line 163 and the children; the
\* children are built from deep copies, the parents keep their values
CallCrossover ==
    /\ x_pc = "call"
    /\ x_pc' = "returned"
    /\ IF LengthMismatch(a, b)
       THEN x_result' = ValueErrorLength /\ UNCHANGED x_points
       ELSE IF SampleRaises(n, Len(a))
            THEN x_result' = ValueErrorSample /\ UNCHANGED x_points
            ELSE \E S \in SampleChoices(n, Len(a)) :
                    /\ x_points' = S
                    /\ x_result' = n_point_crossover(a, b, S)
    /\ UNCHANGED <<a, b, n>>
    /\ UNCHANGED <<evoVars, mutVars, seedVars, fitVars, selVars>>

NextCrossover == CallCrossover

CrossoverInit == InitCrossover /\ EvoIdle /\ MutIdle /\ SeedIdle /\ FitIdle /\ SelIdle

SpecCrossover == CrossoverInit /\ [][NextCrossover]_vars

---------------------------------------------------------------------------
(* compute_signal_config_with_poisson (websters.py 28-83).                 *)
(* Times, widths, lengths and speeds are given in hundredths of their      *)
(* unit.  The flow ratios are the exact fractions num / den over a common  *)
(* denominator; where a floating-point result can differ from the exact    *)
(* one across a test the program makes, both outcomes are modelled:        *)
(*   - the sum Y of inexactly represented ratios whose exact value is 1    *)
(*     can come out one unit in the last place below 1 (Y.ulps = -1);      *)
(*   - ceil of a quotient whose exact value is a whole number g can        *)
(*     come out as g or as g + 1.                                          *)

\* the scenario of the spec: four identical phases, 1800 veh/h, 6 veh/min,
\* reaction 1.0 s, width 3.2 m, speed 13.89 m/s, deceleration 4.5 m/s^2,
\* vehicle length 5 m
Scenario4 ==
    [saturation_flows |-> <<1800, 1800, 1800, 1800>>,
     lambda_rates |-> <<6, 6, 6, 6>>,
     reaction_time |-> 100,
     road_widths |-> <<320, 320, 320, 320>>,
     vehicle_speed |-> 1389,
     deceleration_rate |-> 450,
     vehicle_length |-> 500]

\* the shape main.py passes: four saturation flows and widths, three rates
MainShape == [Scenario4 EXCEPT !.lambda_rates = <<6, 6, 6>>]

\* a phase without capacity beside a phase of 900 veh/h
ZeroFlow ==
    [Scenario4 EXCEPT !.saturation_flows = <<0, 900>>,
                      !.lambda_rates = <<6, 6>>,
                      !.road_widths = <<320, 320>>]

\* no capacity at all
NoCapacity ==
    [Scenario4 EXCEPT !.saturation_flows = <<0>>,
                      !.lambda_rates = <<6>>,
                      !.road_widths = <<320>>]

\* one arrival a minute already fills the phase: no draw gives Y < 1
Oversaturated ==
    [Scenario4 EXCEPT !.saturation_flows = <<60>>,
                      !.lambda_rates = <<6>>,
                      !.road_widths = <<320>>]

SeederInputs == {Scenario4, MainShape, ZeroFlow, NoCapacity, Oversaturated}

\* the value standing for a green time beyond every bound of the model
\* (a cycle length divided by one unit in the last place)
HugeGreen == 1000 * 1000 * 1000

\* compute.py 50-60: max(1, ceil(poisson(q))): any count from 1 up when the
\* mean is positive, 1 when it is 0
ArrivalChoices(lam) == IF lam > 0 THEN 1..MaxArrivals ELSE {1}

ArrivalDraws(p) ==
    {q \in [1..Len(p.lambda_rates) -> 1..MaxArrivals] :
        \A k \in 1..Len(p.lambda_rates) : q[k] \in ArrivalChoices(p.lambda_rates[k])}

\* zip(normal_flows_per_minute, saturation_flows) stops at the shorter list
FlowCount(p) == Min(Len(p.lambda_rates), Len(p.saturation_flows))

\* common denominator of the flow ratios: the lcm of the positive flows
RECURSIVE RatioDenominator(_, _)
RatioDenominator(sat, k) ==
    IF k = 0 THEN 1
    ELSE IF sat[k] > 0 THEN LCM(sat[k], RatioDenominator(sat, k - 1))
         ELSE RatioDenominator(sat, k - 1)

\* websters.py 47: (q * 60) / s if s > 0 else 0, as a numerator over den
FlowRatio(q, sat, den) == IF sat > 0 THEN q * 60 * (den \div sat) ELSE 0

FlowRatios(flows, p) ==
    LET den == RatioDenominator(p.saturation_flows, FlowCount(p))
    IN [k \in 1..FlowCount(p) |-> FlowRatio(flows[k], p.saturation_flows[k], den)]

\* a ratio a binary float does not hold exactly
Inexact(q, sat) == sat > 0 /\ ~IsPowerOfTwo(sat \div GCD(q * 60, sat))

\* websters.py 49: Y = sum(flow_ratios)
SumRoundings(flows, p) ==
    IF /\ SumSeq(FlowRatios(flows, p))
            = RatioDenominator(p.saturation_flows, FlowCount(p))
       /\ \E k \in 1..FlowCount(p) : Inexact(flows[k], p.saturation_flows[k])
    THEN {0, 0 - 1} ELSE {0}

FlowSum(flows, p, ulps) ==
    [num |-> SumSeq(FlowRatios(flows, p)),
     den |-> RatioDenominator(p.saturation_flows, FlowCount(p)),
     ulps |-> ulps]

Acceptable_AtCapacity(y) == y.num <= y.den
\* websters.py 51: Y < 1
Acceptable(y) == y.num < y.den \/ (y.num = y.den /\ y.ulps < 0)

\* compute.py 20: ceil(tr + v / (2 * a))
compute_amber_time(tr, v, dec) == CeilDiv(tr * 2 * dec + 100 * v, 200 * dec)

\* compute.py 38: ceil((W + L) / v)
compute_all_red_time(W, len, v) == CeilDiv(W + len, v)

AmberTimes(p) ==
    [k \in 1..Len(p.road_widths) |->
        compute_amber_time(p.reaction_time, p.vehicle_speed, p.deceleration_rate)]

AllRedTimes(p) ==
    [k \in 1..Len(p.road_widths) |->
        compute_all_red_time(p.road_widths[k], p.vehicle_length, p.vehicle_speed)]

\* websters.py 66
LostTime(p) == SumSeq(AmberTimes(p)) + SumSeq(AllRedTimes(p))

\* websters.py 25: ceil(1.5 * L + 5) / (1 - Y), as the fraction num / den
websters_method(L, y) ==
    [num |-> CeilDiv(3 * L + 10, 2) * y.den, den |-> y.den - y.num]

\* compute.py 47: ceil((y * (C - L)) / Y) for the exact quotient num / den
GreenQuotient(ratio, y, C, L) ==
    [num |-> ratio * (C.num - L * C.den), den |-> y.num * C.den]

\* the values compute_green_time can return for one phase
compute_green_time(ratio, y, C, L) ==
    IF ratio = 0 THEN {0}
    ELSE IF y.ulps < 0 THEN {HugeGreen}
    ELSE LET quot == GreenQuotient(ratio, y, C, L)
             g == CeilDiv(quot.num, quot.den)
         IN IF quot.num % quot.den = 0 THEN {g, g + 1} ELSE {g}

InitSeeder ==
    /\ s_pc = "sample"
    /\ params \in SeederInputs
    /\ normal_flows_per_minute = <<>>
    /\ Y = NoY
    /\ tl_config = <<>>

\* websters.py 41-52: one iteration of `while True`: draw, sum, test
SampleArrivals ==
    /\ s_pc = "sample"
    /\ \E flows \in ArrivalDraws(params) :
          \E ulps \in SumRoundings(flows, params) :
             /\ normal_flows_per_minute' = flows
             /\ Y' = FlowSum(flows, params, ulps)
             /\ s_pc' = IF Acceptable(Y') THEN "accepted" ELSE "sample"
    /\ UNCHANGED <<params, tl_config>>
    /\ UNCHANGED <<evoVars, mutVars, xVars, fitVars, selVars>>

\* websters.py 54-83: lost times, cycle length, green times, configuration
BuildConfig ==
    /\ s_pc = "accepted"
    /\ LET L == LostTime(params)
           C == websters_method(L, Y)
           ratios == FlowRatios(normal_flows_per_minute, params)
           count == FlowCount(params)
       IN IF (C.den = 0 /\ Y.ulps = 0) \/ (count > 0 /\ Y.num = 0)
          THEN s_pc' = "ZeroDivisionError" /\ UNCHANGED tl_config
          ELSE IF Len(params.road_widths) < count
               THEN s_pc' = "IndexError" /\ UNCHANGED tl_config
               ELSE /\ s_pc' = "returned"
                    /\ \E up \in [1..count -> {0, 1}] :
                          LET green_times == [k \in 1..count |->
                                  LowestOf(compute_green_time(ratios[k], Y, C, L))
                                      + up[k]]
                          IN /\ \A k \in 1..count :
                                   green_times[k]
                                       \in compute_green_time(ratios[k], Y, C, L)
                             /\ tl_config' = [k \in 1..count |->
                                   Phase(green_times[k], AmberTimes(params)[k],
                                         AllRedTimes(params)[k])]
    /\ UNCHANGED <<params, normal_flows_per_minute, Y>>
    /\ UNCHANGED <<evoVars, mutVars, xVars, fitVars, selVars>>

NextSeeder ==
    \/ SampleArrivals
    \/ BuildConfig

SeederInit == InitSeeder /\ EvoIdle /\ MutIdle /\ XIdle /\ FitIdle /\ SelIdle

SpecSeeder == SeederInit /\ [][NextSeeder]_vars

\* two phases of 120 veh/h: one arrival a minute on each already gives
\* Y = 0.5 + 0.5 = 1, so no draw gives Y < 1
SaturatedPair ==
    [Scenario4 EXCEPT !.saturation_flows = <<120, 120>>,
                      !.lambda_rates = <<6, 6>>,
                      !.road_widths = <<320, 320>>]

\* the inputs of one and two phases, for the runs that follow the loop to
\* its end
ShortSeederInputs == {ZeroFlow, NoCapacity, Oversaturated, SaturatedPair}

FairSeederInit ==
    /\ s_pc = "sample"
    /\ params \in ShortSeederInputs
    /\ normal_flows_per_minute = <<>>
    /\ Y = NoY
    /\ tl_config = <<>>
    /\ EvoIdle /\ MutIdle /\ XIdle /\ FitIdle /\ SelIdle

\* the loop of websters.py 41-52 and the statements after it always take
\* their next step
FairSpecSeeder == FairSeederInit /\ [][NextSeeder]_vars /\ WF_vars(NextSeeder)

---------------------------------------------------------------------------
(* fitness (ga.py 121-134) and _evaluate_config (ga.py 67-118).  The       *)
(* simulator behind _evaluate_config is outside the program: a call ends   *)
(* with a score (in hundredths, the code rounds to two decimals), with the *)
(* zero-trip answer inf, or with an exception.  A temporary directory is   *)
(* named by the order of its creation.                                     *)

\* configurations handed to fitness: one or two phases, greens on both
\* sides of the minimum
FitnessConfigs == ConfigsOver(InitGreens, {1, 2})

\* scores the simulator can report, in hundredths
ScoreChoices == {0, 1250}

\* how a call of _evaluate_config can end
EvaluatorOutcomes ==
    {[kind |-> "score", score |-> v] : v \in ScoreChoices}
        \cup {[kind |-> "zero_trips", score |-> INF],
              [kind |-> "exception", score |-> NoScore]}

\* ga.py 125: any(phase.green < min_green for phase in traffic_configuration)
GreenBelowMin_Never(config) == FALSE
GreenBelowMin(config) == \E k \in 1..Len(config) : config[k].green < MIN_GREEN

\* tempfile.TemporaryDirectory().__enter__: a directory that did not exist
CreateDir(dirs, created) == dirs \cup {created + 1}

\* tempfile.TemporaryDirectory().__exit__: the directory is removed
ReleaseDir_Kept(dirs, workdir) == dirs
ReleaseDir(dirs, workdir) == dirs \ {workdir}

\* ga.py 131-134: the score, or inf for an exception of the evaluator
ScoreOf(outcome) == IF outcome.kind = "exception" THEN INF ELSE outcome.score

\* a caller calls fitness(traffic_configuration)
CallFitness ==
    /\ f_pc \in {"idle", "returned"}
    /\ f_calls < MaxCalls
    /\ f_config' \in FitnessConfigs
    /\ f_pc' = "call"
    /\ f_calls' = f_calls + 1
    /\ f_workdir' = NoDir
    /\ f_outcome' = "none"
    /\ f_result' = NoScore
    /\ UNCHANGED <<tmp_dirs, dirs_created, evaluations>>
    /\ UNCHANGED <<evoVars, mutVars, xVars, seedVars, selVars>>

\* ga.py 124-128: the min-green check, then the temporary directory
EnterFitness ==
    /\ f_pc = "call"
    /\ IF GreenBelowMin(f_config)
       THEN /\ f_result' = INF
            /\ f_pc' = "returned"
            /\ UNCHANGED <<f_workdir, tmp_dirs, dirs_created>>
       ELSE /\ tmp_dirs' = CreateDir(tmp_dirs, dirs_created)
            /\ dirs_created' = dirs_created + 1
            /\ f_workdir' = dirs_created + 1
            /\ f_pc' = "evaluate"
            /\ UNCHANGED f_result
    /\ UNCHANGED <<f_config, f_outcome, f_calls, evaluations>>
    /\ UNCHANGED <<evoVars, mutVars, xVars, seedVars, selVars>>

\* ga.py 130: _evaluate_config(traffic_configuration, workdir) runs
EvaluateConfig ==
    /\ f_pc = "evaluate"
    /\ \E outcome \in EvaluatorOutcomes :
          /\ f_outcome' = outcome.kind
          /\ f_result' = ScoreOf(outcome)
          /\ evaluations' = Append(evaluations,
                [config |-> f_config, workdir |-> f_workdir,
                 outcome |-> outcome.kind])
    /\ f_pc' = "exit"
    /\ UNCHANGED <<f_config, f_workdir, f_calls, tmp_dirs, dirs_created>>
    /\ UNCHANGED <<evoVars, mutVars, xVars, seedVars, selVars>>

\* ga.py 128-134: the with block is left and fitness returns
ExitFitness ==
    /\ f_pc = "exit"
    /\ tmp_dirs' = ReleaseDir(tmp_dirs, f_workdir)
    /\ f_workdir' = NoDir
    /\ f_pc' = "returned"
    /\ UNCHANGED <<f_config, f_outcome, f_result, f_calls, dirs_created,
                   evaluations>>
    /\ UNCHANGED <<evoVars, mutVars, xVars, seedVars, selVars>>

NextFitness ==
    \/ CallFitness
    \/ EnterFitness
    \/ EvaluateConfig
    \/ ExitFitness

FitnessInit == FitIdle /\ EvoIdle /\ MutIdle /\ XIdle /\ SeedIdle /\ SelIdle

SpecFitness == FitnessInit /\ [][NextFitness]_vars

---------------------------------------------------------------------------
(* One call of selection (ga.py 41-64) *)

\* green times of the configurations handed to selection: none, one below
\* the minimum green, one feasible
SelectionGreens == {0, 4, 6}

SelectionConfigs ==
    {[k \in 1..2 |-> Phase(g[k], 3, 1)] : g \in EvoSeqs(SelectionGreens, 2)}

InitSelection ==
    /\ sel_pc = "call"
    /\ sel_population \in UNION {EvoSeqs(SelectionConfigs, size) : size \in 0..MaxPop}
    /\ sel_fitness_func \in FitnessKinds
    /\ sel_result = <<>>

\* lines 59-64: the weights are computed, then choices() draws or raises
CallSelection ==
    /\ sel_pc = "call"
    /\ IF SortRaises(sel_population, sel_fitness_func)
       THEN sel_pc' = "OracleError" /\ UNCHANGED sel_result
       ELSE IF sel_population = <<>>
       THEN sel_pc' = "IndexError" /\ UNCHANGED sel_result
       ELSE IF SelectionRaises(sel_population, sel_fitness_func)
       THEN sel_pc' = "ValueError" /\ UNCHANGED sel_result
       ELSE /\ sel_pc' = "returned"
            /\ sel_result' \in SelectionOutcomes(sel_population, sel_fitness_func)
    /\ UNCHANGED <<sel_population, sel_fitness_func>>
    /\ UNCHANGED <<evoVars, mutVars, xVars, seedVars, fitVars>>

NextSelection == CallSelection

SelectionInit ==
    InitSelection /\ EvoIdle /\ MutIdle /\ XIdle /\ SeedIdle /\ FitIdle

SpecSelection == SelectionInit /\ [][NextSelection]_vars

---------------------------------------------------------------------------
(* Properties of mutation *)

\* C5 (as claimed): for every configuration of one or more phases, every
\* mutated phase and every shift, each phase of the configuration that
\* mutation returns has green >= min_green.
C5_MutationKeepsMinGreen ==
    (m_pc = "returned" /\ Len(m_config) >= 1) =>
        \A k \in 1..Len(m_result) : m_result[k].green >= MIN_GREEN

---------------------------------------------------------------------------
(* Properties of n_point_crossover *)

\* C6: whenever n_point_crossover returns children, every phase of both
\* children has green >= min_green, whatever the parents' green times, the
\* point count and the cut points.
C6_ChildrenKeepMinGreen ==
    (x_pc = "returned" /\ x_result.status = "returned") =>
        /\ \A k \in 1..Len(x_result.child1) : x_result.child1[k].green >= MIN_GREEN
        /\ \A k \in 1..Len(x_result.child2) : x_result.child2[k].green >= MIN_GREEN

\* C6 witness: children cut from parents holding a green below the minimum
C6_Witness ==
    /\ x_pc = "returned"
    /\ x_result.status = "returned"
    /\ Cardinality(x_points) >= 1
    /\ \E k \in 1..Len(a) : a[k].green < MIN_GREEN
    /\ \E k \in 1..Len(b) : b[k].green < MIN_GREEN

\* a phase as a child holds it: a copy with the green raised to the minimum
CopyOf(phase) ==
    [green |-> IF phase.green < MIN_GREEN THEN MIN_GREEN ELSE phase.green,
     amber |-> phase.amber, all_red |-> phase.all_red]

\* C7: on parents of one length (one phase or more) n_point_crossover
\* returns two children of that length, cut at min(n, phase_count - 1)
\* distinct interior points; at Python index i, child1 holds a copy of A[i]
\* and child2 a copy of B[i] when the number of cut points <= i is even, and
\* the other way round when it is odd.
C7_ChildrenAlternateSources ==
    (x_pc = "returned" /\ Len(a) = Len(b) /\ Len(a) >= 1) =>
        /\ x_result.status = "returned"
        /\ Len(x_result.child1) = Len(a)
        /\ Len(x_result.child2) = Len(a)
        /\ x_points \subseteq 1..(Len(a) - 1)
        /\ Cardinality(x_points) = (IF n >= Len(a) THEN Len(a) - 1 ELSE n)
        /\ \A k \in 1..Len(a) :
              IF Cardinality({pt \in x_points : pt <= k - 1}) % 2 = 0
              THEN /\ x_result.child1[k] = CopyOf(a[k])
                   /\ x_result.child2[k] = CopyOf(b[k])
              ELSE /\ x_result.child1[k] = CopyOf(b[k])
                   /\ x_result.child2[k] = CopyOf(a[k])

\* C7 witness: two cut points on parents that differ in every phase
C7_Witness ==
    /\ x_pc = "returned"
    /\ x_result.status = "returned"
    /\ Cardinality(x_points) = 2
    /\ Len(a) = Len(b)
    /\ \A k \in 1..Len(a) : a[k] # b[k]

\* C8: a call with parents of different phase counts ends with the
\* length-mismatch ValueError and no children, for every n, and leaves both
\* parents as they were.
C8_MismatchAlwaysFails ==
    [][ (x_pc = "call" /\ Len(a) # Len(b)) =>
            /\ x_pc' = "returned"
            /\ x_result'.status
                  = "ValueError: Parent configurations must have equal length"
            /\ x_result'.child1 = <<>>
            /\ x_result'.child2 = <<>>
            /\ a' = a
            /\ b' = b
      ]_vars

\* C8 witness: the call has failed on a shorter first parent
C8_Witness ==
    /\ x_pc = "returned"
    /\ Len(a) < Len(b)
    /\ Len(a) >= 1
    /\ x_result = ValueErrorLength

---------------------------------------------------------------------------
(* Properties of the Webster seeder *)

SeederLeftLoop == s_pc \in {"accepted", "returned", "ZeroDivisionError", "IndexError"}

\* C9: once the sampling loop is left, Y is the sum of the flow ratios of
\* the draw last sampled and, as the program computed it, is < 1; the
\* returned green times are those computed from that draw.  (A draw whose
\* Y is >= 1 therefore never leaves the loop.)
C9_ReturnedDrawBelowOne ==
    SeederLeftLoop =>
        /\ Y = FlowSum(normal_flows_per_minute, params, Y.ulps)
        /\ Y.num < Y.den \/ (Y.num = Y.den /\ Y.ulps < 0)
        /\ s_pc = "returned" =>
              /\ Len(tl_config) = FlowCount(params)
              /\ \A k \in 1..Len(tl_config) :
                    tl_config[k].green \in
                        compute_green_time(
                            FlowRatios(normal_flows_per_minute, params)[k], Y,
                            websters_method(LostTime(params), Y), LostTime(params))

\* C9 witness: a configuration returned for a draw close to saturation
C9_Witness ==
    /\ s_pc = "returned"
    /\ Len(tl_config) >= 2
    /\ Y.num < Y.den
    /\ 10 * Y.num >= 9 * Y.den

\* C10 (as claimed): in the four-phase scenario every accepted draw yields
\* exactly 4 PhaseConfig entries, each with green >= 5.
C10_ScenarioGreensAtLeastMin ==
    (params = Scenario4 /\ s_pc = "returned") =>
        /\ Len(tl_config) = 4
        /\ \A k \in 1..Len(tl_config) : tl_config[k].green >= MIN_GREEN

\* C11 (as claimed): when even the smallest draw (one arrival a minute on
\* every phase) gives a flow-ratio sum >= 1, so that no draw can be accepted,
\* the seeder still stops: it eventually leaves the sampling loop, with a
\* configuration or with an error.
C11_InfeasibleDemandStops ==
    (/\ s_pc = "sample"
     /\ SumSeq(FlowRatios([k \in 1..Len(params.lambda_rates) |-> 1], params))
           >= RatioDenominator(params.saturation_flows, FlowCount(params)))
        => <>(s_pc # "sample")

---------------------------------------------------------------------------
(* Properties of fitness *)

\* C12: a call of fitness on a configuration holding a phase with
\* green < MIN_GREEN returns inf at once, creating no temporary directory
\* and without calling the evaluator; so every configuration the evaluator
\* was ever called on has all greens >= MIN_GREEN.
C12_InfeasibleNeverEvaluated ==
    /\ [][ (f_pc = "call" /\ \E k \in 1..Len(f_config) : f_config[k].green < MIN_GREEN)
              => /\ f_pc' = "returned"
                 /\ f_result' = INF
                 /\ f_workdir' = NoDir
                 /\ tmp_dirs' = tmp_dirs
                 /\ dirs_created' = dirs_created
                 /\ evaluations' = evaluations
         ]_vars
    /\ [](\A e \in 1..Len(evaluations) :
            \A k \in 1..Len(evaluations[e].config) :
                evaluations[e].config[k].green >= MIN_GREEN)

\* C12 witness: an infeasible configuration was answered after the
\* evaluator had run for an earlier, feasible one
C12_Witness ==
    /\ f_pc = "returned"
    /\ \E k \in 1..Len(f_config) : f_config[k].green < MIN_GREEN
    /\ f_result = INF
    /\ Len(evaluations) >= 1

\* C14: a call that passes the min-green check holds a directory of its
\* own while the evaluator runs, the only one that exists; no directory
\* exists when no evaluation is under way, so it is gone when fitness has
\* returned, however the evaluator ended; and no two evaluations were given
\* the same directory.
C14_ScratchDirectoryScoped ==
    /\ f_pc \in {"evaluate", "exit"} =>
          /\ f_workdir # NoDir
          /\ tmp_dirs = {f_workdir}
          /\ \A e \in 1..Len(evaluations) :
                evaluations[e].workdir = f_workdir => (f_pc = "exit" /\ e = Len(evaluations))
    /\ f_pc \in {"idle", "call", "returned"} => (tmp_dirs = {} /\ f_workdir = NoDir)
    /\ (f_pc = "returned" /\ \A k \in 1..Len(f_config) : f_config[k].green >= MIN_GREEN) =>
          /\ Len(evaluations) >= 1
          /\ evaluations[Len(evaluations)].config = f_config
          /\ evaluations[Len(evaluations)].outcome = f_outcome
    /\ \A e1, e2 \in 1..Len(evaluations) :
          e1 # e2 => evaluations[e1].workdir # evaluations[e2].workdir

\* C14 witness: fitness has returned after evaluations that ended in each
\* of the three ways
C14_Witness ==
    /\ f_pc = "returned"
    /\ f_outcome = "exception"
    /\ f_result = INF
    /\ {evaluations[e].outcome : e \in 1..Len(evaluations)}
          = {"score", "zero_trips", "exception"}

---------------------------------------------------------------------------
(* Errors of the fitness oracle in run_evolution *)

\* C13 (as claimed): in a run of one generation or more on two individuals
\* or more, an error raised by the fitness function handed to run_evolution
\* is never propagated out of run_evolution.
C13_OracleErrorNeverPropagates ==
    (generation_limit >= 1 /\ Len(population_dict) >= 2) =>
        ~(pc = "raised" /\ result.status = "OracleError")

---------------------------------------------------------------------------
(* Properties of selection *)

\* C15 (as claimed): for every non-empty population and every fitness
\* function that answers each member with a finite non-negative score or
\* with inf, selection returns exactly two individuals, each a member of the
\* population.
C15_SelectionReturnsTwoMembers ==
    (/\ sel_pc \notin {"idle", "call"}
     /\ sel_population # <<>>
     /\ sel_fitness_func \in {"sum_green", "precheck"}) =>
        /\ sel_pc = "returned"
        /\ Len(sel_result) = 2
        /\ \A p \in 1..2 :
              \E k \in 1..Len(sel_population) : sel_result[p] = sel_population[k]

---------------------------------------------------------------------------
(* Redistribution and frame of mutation *)

\* C16 (as claimed): after mutation of a configuration of two phases or
\* more, with d the change of the selected phase's green (returned value
\* minus old value), every other phase j holds
\* max(min_green, old green + r), r = trunc(-d / (phase_count - 1)).
C16_RedistributionFollowsAppliedDelta ==
    (m_pc = "returned" /\ Len(m_config) >= 2) =>
        LET d == m_result[m_i].green - m_config[m_i].green
            r == TruncDiv(0 - d, Len(m_config) - 1)
        IN \A j \in 1..Len(m_config) :
              j # m_i =>
                  m_result[j].green
                      = (IF m_config[j].green + r < MIN_GREEN
                         THEN MIN_GREEN ELSE m_config[j].green + r)

\* C17: a call of mutation leaves the configuration passed to it as it
\* was, and returns a configuration of the same number of phases whose
\* amber and all_red are those of the argument at the same index.
C17_MutationChangesOnlyGreens ==
    [][ m_pc = "call" =>
            /\ m_pc' = "returned"
            /\ m_config' = m_config
            /\ Len(m_result') = Len(m_config)
            /\ \A k \in 1..Len(m_config) :
                  /\ m_result'[k].amber = m_config[k].amber
                  /\ m_result'[k].all_red = m_config[k].all_red
      ]_vars

\* C17 witness: a returned configuration whose greens all differ from the
\* argument's
C17_Witness ==
    /\ m_pc = "returned"
    /\ Len(m_config) >= 2
    /\ Len(m_result) = Len(m_config)
    /\ \A k \in 1..Len(m_config) : m_result[k].green # m_config[k].green

---------------------------------------------------------------------------
(* Degenerate arguments of run_evolution *)

\* C18: run_evolution returns only for generation_limit >= 1 and two
\* individuals or more.  With a fitness function that answers every call,
\* generation_limit = 0 on two individuals or more ends with the unbound
\* `generation` at the return statement, and a single individual ends with
\* the IndexError of population[-2] after all generations have run.
C18_ReturnsOnlyForProperArguments ==
    /\ pc = "done" => (generation_limit >= 1 /\ Len(population_dict) >= 2)
    /\ (/\ pc \in {"done", "raised"}
        /\ fitness_func \in {"sum_green", "precheck"}
        /\ generation_limit = 0
        /\ Len(population_dict) >= 2) =>
           /\ pc = "raised"
           /\ result.status = "UnboundLocalError"
           /\ generations_run = 0
    /\ (/\ pc \in {"done", "raised"}
        /\ fitness_func \in {"sum_green", "precheck"}
        /\ Len(population_dict) = 1) =>
           /\ pc = "raised"
           /\ result.status = "IndexError"
           /\ generations_run = generation_limit
           /\ Len(population) = 1

\* C18 witness: a single individual went through two generations before
\* the read of population[-2] failed
C18_Witness ==
    /\ pc = "raised"
    /\ result.status = "IndexError"
    /\ Len(population_dict) = 1
    /\ generation_limit = 2
    /\ generations_run = 2

=============================================================================
